---- MODULE Spec2Model ----
(***************************************************************************)
(* Model of whatsapp_bot.py: the Twilio WhatsApp webhook handler, its       *)
(* in-memory SESSION_STORE, the catalog detail lookup and the detail        *)
(* formatter.                                                               *)
(*                                                                          *)
(* A Python str is a sequence of one-character strings; a fixed phrase of   *)
(* a message literal is kept as one element ("View Product: "), while the   *)
(* characters an f-string puts around its fields ("*", "\n", "'") are       *)
(* single elements, so that concatenation is \o and equality of texts is    *)
(* equality of sequences.  An optional form field (request.form.get) is a   *)
(* record [present, val].                                                   *)
(***************************************************************************)
EXTENDS Integers, Sequences, FiniteSets, TLC

\* ------------------------------------------------------------------ bounds

\* Longest mentioned_products list the backend returns in the model.
MaxProducts == 2

\* ----------------------------------------------------------------- strings

Lowers == <<"a","b","c","d","e","f","g","h","i","j","k","l","m",
            "n","o","p","q","r","s","t","u","v","w","x","y","z">>
Uppers == <<"A","B","C","D","E","F","G","H","I","J","K","L","M",
            "N","O","P","Q","R","S","T","U","V","W","X","Y","Z">>
Digits == <<"0","1","2","3","4","5","6","7","8","9">>

\* Position of c in the tuple t, 0 when it is not there.
IndexOf(c, t) ==
    IF \E i \in 1..Len(t) : t[i] = c
    THEN CHOOSE i \in 1..Len(t) : t[i] = c
    ELSE 0

UpperChar(c) == IF IndexOf(c, Lowers) > 0 THEN Uppers[IndexOf(c, Lowers)] ELSE c
LowerChar(c) == IF IndexOf(c, Uppers) > 0 THEN Lowers[IndexOf(c, Uppers)] ELSE c

\* str.upper() and str.lower()
upper(s) == [i \in 1..Len(s) |-> UpperChar(s[i])]
lower(s) == [i \in 1..Len(s) |-> LowerChar(s[i])]

IsSpace(c) == c \in {" ", "\t", "\n", "\r"}

\* str.strip(): leading and trailing whitespace removed.
strip(s) ==
    IF \A i \in 1..Len(s) : IsSpace(s[i])
    THEN <<>>
    ELSE LET first == CHOOSE i \in 1..Len(s) :
                          /\ ~IsSpace(s[i])
                          /\ \A j \in 1..(i-1) : IsSpace(s[j])
             last  == CHOOSE i \in 1..Len(s) :
                          /\ ~IsSpace(s[i])
                          /\ \A j \in (i+1)..Len(s) : IsSpace(s[j])
         IN  SubSeq(s, first, last)

\* str.startswith(prefix)
startswith(s, prefix) ==
    /\ Len(s) >= Len(prefix)
    /\ SubSeq(s, 1, Len(prefix)) = prefix

\* str.split(" ", 1): cut at the first space only; no space, one part.
split_once(s) ==
    IF \E i \in 1..Len(s) : s[i] = " "
    THEN LET i == CHOOSE k \in 1..Len(s) :
                      s[k] = " " /\ \A j \in 1..(k-1) : s[j] # " "
         IN  <<SubSeq(s, 1, i-1), SubSeq(s, i+1, Len(s))>>
    ELSE <<s>>

\* sep.join(items)
RECURSIVE join(_, _)
join(sep, items) ==
    IF Len(items) = 0 THEN <<>>
    ELSE IF Len(items) = 1 THEN items[1]
    ELSE items[1] \o sep \o join(sep, Tail(items))

\* Concatenation of a sequence of strings (the += of a loop).
RECURSIVE concat(_)
concat(items) ==
    IF Len(items) = 0 THEN <<>> ELSE items[1] \o concat(Tail(items))

\* ------------------------------------------------------------------ float()

RECURSIVE DigitsValue(_)
DigitsValue(ds) ==
    IF Len(ds) = 0 THEN 0
    ELSE 10 * DigitsValue(SubSeq(ds, 1, Len(ds) - 1))
         + (IndexOf(ds[Len(ds)], Digits) - 1)

RECURSIVE Normalize(_, _)
Normalize(num, scale) ==
    IF scale > 0 /\ num % 10 = 0
    THEN Normalize(num \div 10, scale - 1)
    ELSE [num |-> num, scale |-> scale]

\* float(text) on a decimal literal: surrounding whitespace is ignored, one
\* optional sign, digits with at most one point.  ok = FALSE is ValueError.
\* The value is num / 10^scale with the sign in neg.
float(text) ==
    LET t      == strip(text)
        signed == Len(t) > 0 /\ t[1] \in {"+", "-"}
        body   == IF signed THEN Tail(t) ELSE t
        dots   == {i \in 1..Len(body) : body[i] = "."}
        ds     == SelectSeq(body, LAMBDA c : c # ".")
        valid  == /\ Len(ds) > 0
                  /\ \A i \in 1..Len(ds) : IndexOf(ds[i], Digits) > 0
                  /\ Cardinality(dots) <= 1
        scale  == IF dots = {} THEN 0 ELSE Len(body) - (CHOOSE i \in dots : TRUE)
        n      == Normalize(DigitsValue(ds), scale)
    IN  IF valid
        THEN [ok |-> TRUE, neg |-> (signed /\ t[1] = "-" /\ n.num # 0),
              num |-> n.num, scale |-> n.scale]
        ELSE [ok |-> FALSE, neg |-> FALSE, num |-> 0, scale |-> 0]

\* ----------------------------------------------------- optional form fields

\* request.form.get(name): None when the field was not posted.
None == [present |-> FALSE, val |-> <<>>]
Some(s) == [present |-> TRUE, val |-> s]

\* Python truth of an optional str: None and "" are false.
TruthyPresent(x) == x.present
Truthy(x) == x.present /\ Len(x.val) > 0

\* ------------------------------------------------------------ reply literals

CONNECT_MSG ==
    <<"Sorry, I'm having trouble connecting to the server. Please try again later.">>
HELLO_MSG == <<"Hello! Please send your query or location.">>
SPECIFY_MSG ==
    <<"Please specify which product details you want. Example: DETAILS Tractor">>
LOAD_ERROR_MSG == <<"Error loading product details. Please try again later.">>
LOCATION_MESSAGE == <<"Here is my location.">>
DETAILS_KEYWORD == <<"D","E","T","A","I","L","S">>
DEFAULT_SESSION == <<"default_session">>
NO_URL == <<"No URL">>
NO_DETAIL == <<"No detailed description available.">>

\* ---------------------------------------------------------- detail formatter

\* A detailed_description value: [t, v] with t one of
\*   "str"  (v the text), "list" (v a sequence of scalars),
\*   "dict" (v a sequence of [k, val] entries in insertion order),
\*   "none" (JSON null).
StrNode(s)   == [t |-> "str",  v |-> s]
ListNode(xs) == [t |-> "list", v |-> xs]
DictNode(es) == [t |-> "dict", v |-> es]
NoneNode     == [t |-> "none", v |-> <<>>]

\* str(x) of a scalar inside an f-string
Str(x) == IF x.t = "str" THEN x.v ELSE <<"None">>

BulletLines(items) ==
    join(<<"\n">>, [i \in 1..Len(items) |-> <<"  - ">> \o Str(items[i])])

EntryLines(entries) ==
    join(<<"\n">>, [i \in 1..Len(entries) |->
            <<"  - ">> \o entries[i].k \o <<": ">> \o Str(entries[i].val)])

KeyBlock(key, value) ==
    IF value.t = "dict"
    THEN <<"*">> \o key \o <<":", "*", "\n">> \o EntryLines(value.v) \o <<"\n">>
    ELSE IF value.t = "list"
    THEN <<"*">> \o key \o <<":", "*", "\n">> \o BulletLines(value.v) \o <<"\n">>
    ELSE <<"*">> \o key \o <<":", "*", " ">> \o Str(value) \o <<"\n">>

parse_detailed_description(detailed_desc) ==
    IF detailed_desc.t = "dict"
    THEN concat([i \in 1..Len(detailed_desc.v) |->
                    KeyBlock(detailed_desc.v[i].k, detailed_desc.v[i].val)])
    ELSE IF detailed_desc.t = "list" THEN BulletLines(detailed_desc.v)
    ELSE IF detailed_desc.t = "str" THEN detailed_desc.v
    ELSE NO_DETAIL

\* ------------------------------------------------------------------- catalog

\* One entry of "products" in company-information.json.  title and
\* description are read with [], detailed_description and product_url with
\* .get(), so only the latter two may be missing.
Product(title, description, has_dd, dd, has_url, url) ==
    [title |-> title, description |-> description,
     has_detailed_description |-> has_dd, detailed_description |-> dd,
     has_product_url |-> has_url, product_url |-> url]

Tractor == <<"T","r","a","c","t","o","r">>
Ox      == <<"O","x">>
Cart    == <<"C","a","r","t">>

TractorRecord ==
    Product(Tractor, <<"Farm tool">>,
            TRUE, DictNode(<<[k |-> <<"Power">>, val |-> StrNode(<<"50HP">>)]>>),
            TRUE, <<"http://x/tractor">>)
LowerTractorRecord ==
    Product(lower(Tractor), <<"Small tractor">>, TRUE, StrNode(<<"Compact">>),
            FALSE, <<>>)
OxRecord ==
    Product(Ox, <<"Draft animal">>,
            TRUE, ListNode(<<StrNode(<<"strong">>), StrNode(<<"slow">>)>>),
            FALSE, <<>>)
CartRecord ==
    Product(Cart, <<"Two wheels">>,
            TRUE, DictNode(<<
                [k |-> <<"Size">>,
                 val |-> DictNode(<<[k |-> <<"w">>, val |-> StrNode(<<"1m">>)],
                                    [k |-> <<"h">>, val |-> NoneNode]>>)],
                [k |-> <<"Uses">>,
                 val |-> ListNode(<<StrNode(<<"hay">>), StrNode(<<"wood">>)>>)],
                [k |-> <<"Note">>, val |-> NoneNode]>>),
            TRUE, <<"http://x/cart">>)
PlainRecord ==
    Product(<<"P","l","o","w">>, <<"Blade">>, TRUE, StrNode(<<"Steel blade">>),
            TRUE, <<"http://x/plow">>)
NullRecord ==
    Product(<<"H","o","e">>, <<"Hand tool">>, TRUE, NoneNode, FALSE, <<>>)
BareRecord ==
    Product(<<"R","a","k","e">>, <<"Teeth">>, FALSE, NoneNode, TRUE, <<"http://x/rake">>)

\* The contents company-information.json can have when a request reads it:
\* readable = FALSE is a missing or corrupt file (open or json.load raises).
Catalogs == <<
    [readable |-> FALSE, products |-> <<>>],
    [readable |-> TRUE,  products |-> <<>>],
    [readable |-> TRUE,  products |-> <<TractorRecord>>],
    [readable |-> TRUE,  products |-> <<LowerTractorRecord, TractorRecord, OxRecord>>],
    [readable |-> TRUE,  products |-> <<CartRecord, PlainRecord, NullRecord, BareRecord>>] >>
CatalogIds == 1..Len(Catalogs)

\* p["title"].lower() == product_title.lower()
TitleMatchesExact(p, product_title) == p.title = product_title
TitleMatches(p, product_title) == lower(p.title) = lower(product_title)

FoundText(product) ==
    <<"*">> \o product.title \o <<"*", "\n">>
    \o product.description \o <<"\n", "\n">>
    \o parse_detailed_description(
           IF product.has_detailed_description
           THEN product.detailed_description ELSE DictNode(<<>>))
    \o <<"\n">>
    \o <<"View Product: ">>
    \o (IF product.has_product_url THEN product.product_url ELSE NO_URL)

NotFoundText(product_title) ==
    <<"Sorry, I couldn't find details for the product '">>
    \o product_title \o <<"'.">>

get_product_details(product_title, catalog) ==
    IF ~catalog.readable THEN LOAD_ERROR_MSG
    ELSE LET products == catalog.products
             hits == {i \in 1..Len(products) : TitleMatches(products[i], product_title)}
         IN  IF hits # {}
             THEN FoundText(products[CHOOSE i \in hits : \A j \in hits : i <= j])
             ELSE NotFoundText(product_title)

\* ------------------------------------------------------------ session store

\* A Python dict is a function from its keys; {} has the empty domain.
EmptyDict == [k \in {} |-> <<>>]

\* d.get(key, default)
DictGet(d, key, default) == IF key \in DOMAIN d THEN d[key] ELSE default

\* d[key] = value
DictSet(d, key, value) ==
    [k \in (DOMAIN d) \cup {key} |-> IF k = key THEN value ELSE d[k]]

\* ------------------------------------------------------------------ backend

\* An element of "mentioned_products" of the backend's JSON reply.
Mentioned(has_title, title, has_description, description) ==
    [has_title |-> has_title, title |-> title,
     has_description |-> has_description, description |-> description]

MentionedPool == {
    Mentioned(TRUE, Tractor, TRUE, <<"Farm tool">>),
    Mentioned(TRUE, Ox, TRUE, <<"Draft animal">>),
    Mentioned(FALSE, <<>>, TRUE, <<"Untitled">>),
    Mentioned(TRUE, Cart, FALSE, <<>>) }

MentionedLists ==
    UNION {[1..n -> MentionedPool] : n \in 0..MaxProducts}

\* What requests.post(...), raise_for_status() and json() can come to:
\*   network_error   requests.post raises (ConnectionError, Timeout)
\*   http_error      raise_for_status() raises HTTPError
\*   bad_json        the body is not JSON and json() raises requests'
\*                   JSONDecodeError, a RequestException (requests 2.27 on)
\*   bad_json_legacy the body is not JSON and json() raises a plain
\*                   ValueError (requests before 2.27)
\*   not_object      the body is JSON but no object (a list): data.get fails
\*   ok              a JSON object, "reply" and "mentioned_products" optional
Outcome(kind, has_reply, reply, has_mentioned, mentioned) ==
    [kind |-> kind, has_reply |-> has_reply, reply |-> reply,
     has_mentioned_products |-> has_mentioned, mentioned_products |-> mentioned]

Failure(kind) == Outcome(kind, FALSE, <<>>, FALSE, <<>>)
NoOutcome == Failure("none")

FailureKinds ==
    {"network_error", "http_error", "bad_json", "bad_json_legacy", "not_object"}

BackendOutcomes ==
    {Failure(k) : k \in FailureKinds}
    \cup {Outcome("ok", FALSE, <<>>, FALSE, <<>>)}
    \cup {Outcome("ok", r = 1, IF r = 1 THEN <<"Here is what I found.">> ELSE <<>>, TRUE, m) :
            r \in 0..1, m \in MentionedLists}

\* ------------------------------------------------------------------ webhook

\* The posted form: From, Body, Latitude, Longitude.
Event(from, body, lat, lon) ==
    [From |-> from, Body |-> body, Latitude |-> lat, Longitude |-> lon]

SP == <<" ">>

Froms == {None, Some(<<>>), Some(<<"whatsapp:+1">>), Some(<<"whatsapp:+2">>)}
Bodies == {
    None,
    Some(<<>>),
    Some(<<"h","i">>),
    Some(DETAILS_KEYWORD),
    Some(lower(DETAILS_KEYWORD) \o SP),
    Some(DETAILS_KEYWORD \o SP \o SP \o SP),
    Some(DETAILS_KEYWORD \o SP \o Tractor),
    Some(<<"D","e","t","a","i","l","s">> \o SP \o SP \o upper(Tractor) \o SP),
    Some(DETAILS_KEYWORD \o SP \o Ox),
    Some(lower(DETAILS_KEYWORD) \o SP \o Cart),
    Some(DETAILS_KEYWORD \o SP \o <<"h","o","e">>),
    Some(DETAILS_KEYWORD \o SP \o <<"R","A","K","E">>),
    Some(SP \o DETAILS_KEYWORD \o SP \o Tractor) }
Latitudes  == {None, Some(<<>>), Some(<<" ","1","2",".","5","0">>), Some(<<"a","b","c">>)}
Longitudes == {None, Some(<<"-","7">>), Some(<<"1","2",",","5">>)}

Events ==
    {Event(f, b, la, lo) : f \in Froms, b \in Bodies, la \in Latitudes, lo \in Longitudes}

\* session_id = from_number if from_number else "default_session"
SessionId(from_number) ==
    IF Truthy(from_number) THEN from_number.val ELSE DEFAULT_SESSION

\* Which branch of the handler an event takes.
RouteBodyFirst(message_body, latitude, longitude) ==
    IF ~Truthy(message_body)
    THEN IF Truthy(latitude) /\ Truthy(longitude) THEN "location" ELSE "empty"
    ELSE IF startswith(upper(strip(message_body.val)), DETAILS_KEYWORD) THEN "details"
    ELSE IF Truthy(latitude) /\ Truthy(longitude) THEN "location"
    ELSE "text"
Route(message_body, latitude, longitude) ==
    IF Truthy(latitude) /\ Truthy(longitude) THEN "location"
    ELSE IF ~Truthy(message_body) THEN "empty"
    ELSE IF startswith(upper(strip(message_body.val)), DETAILS_KEYWORD) THEN "details"
    ELSE "text"

NoFloat == [ok |-> FALSE, neg |-> FALSE, num |-> 0, scale |-> 0]
NoLocation == [latitude |-> NoFloat, longitude |-> NoFloat]

Payload(session_id, message, first_name, has_location, location) ==
    [session_id |-> session_id, message |-> message, first_name |-> first_name,
     has_location |-> has_location, location |-> location]
NoPayload == Payload(<<>>, <<>>, <<>>, FALSE, NoLocation)

LocationPayload(session_id, first_name, latitude, longitude) ==
    Payload(session_id, LOCATION_MESSAGE, first_name, TRUE,
            [latitude |-> float(latitude.val), longitude |-> float(longitude.val)])

TextPayload(session_id, message_body, first_name) ==
    Payload(session_id, message_body.val, first_name, FALSE, NoLocation)

\* requested_product = parts[1].strip()
RequestedProductRaw(parts) == parts[2]
RequestedProduct(parts) == strip(parts[2])

\* The reply of the DETAILS branch.  get_product_details catches every
\* exception itself, so the branch's own except clause never runs.
DetailReply(message_body, catalog) ==
    LET parts == split_once(message_body.val)
    IN  IF Len(parts) = 2
        THEN get_product_details(RequestedProduct(parts), Catalogs[catalog])
        ELSE SPECIFY_MSG

\* The catalog file is opened only when get_product_details is called; 0
\* stands for a request that does not read it.
CatalogsRead(message_body) ==
    IF Len(split_once(message_body.val)) = 2 THEN CatalogIds ELSE {0}

product_msg(product) ==
    <<"*">> \o product.title \o <<"*", "\n">> \o product.description \o <<"\n">>
    \o <<"Reply with: DETAILS ">> \o product.title \o <<" to see more.">>

\* resp.message(gpt_response), then one resp.message per mentioned product.
ReplyMessagesNoLead(data) ==
    (IF Len(data.mentioned_products) = 0
     THEN << IF data.has_reply THEN data.reply ELSE <<>> >> ELSE <<>>)
    \o [i \in 1..Len(data.mentioned_products) |-> product_msg(data.mentioned_products[i])]
ReplyMessages(data) ==
    << IF data.has_reply THEN data.reply ELSE <<>> >>
    \o [i \in 1..Len(data.mentioned_products) |-> product_msg(data.mentioned_products[i])]

\* product["title"] or product["description"] raises KeyError
WellFormed(products) ==
    \A i \in 1..Len(products) : products[i].has_title /\ products[i].has_description

Result(status, messages, store, wrote) ==
    [status |-> status, messages |-> messages, store |-> store, wrote |-> wrote]

\* The try block after requests.post: the handler's result for a backend
\* outcome.  status 500 is an exception that no except clause catches: Flask
\* answers 500 and the TwiML built so far is dropped.
AfterPost(session_id, session_data, out, store) ==
    IF out.kind \in {"network_error", "http_error", "bad_json"}
    THEN Result(200, <<CONNECT_MSG>>, store, FALSE)
    ELSE IF out.kind = "bad_json_legacy"
    THEN Result(500, <<>>, store, FALSE)
    ELSE IF out.kind = "not_object"
    THEN Result(500, <<>>, DictSet(store, session_id, session_data), TRUE)
    ELSE IF WellFormed(out.mentioned_products)
    THEN Result(200, ReplyMessages(out), DictSet(store, session_id, session_data), TRUE)
    ELSE Result(500, <<>>, DictSet(store, session_id, session_data), TRUE)

\* -------------------------------------------------------------------- state

VARIABLES
    SESSION_STORE,  \* the module-level dict: session_id -> session_data
    pc,             \* per handler thread: "idle", "posting" (inside
                    \* requests.post) or "responding" (at return str(resp))
    flight,         \* per handler thread: the request it serves, its locals
                    \* and, once responding, its response
    stale           \* per handler thread: another request wrote this request's
                    \* SESSION_STORE entry after this request read it

vars == <<SESSION_STORE, pc, flight, stale>>

\* Handler threads: one request at a time in Spec, two at once in SpecConc.
Handlers == {1, 2}
SoloHandlers == {1}

NoEvent == Event(None, None, None, None)

Flight(ev, session_id, session_data, route, sent, payload, out, catalog, res, before, stale_write) ==
    [ev |-> ev, session_id |-> session_id, session_data |-> session_data,
     route |-> route, sent |-> sent, payload |-> payload, outcome |-> out,
     catalog |-> catalog, status |-> res.status, messages |-> res.messages,
     store_before |-> before, store_after |-> res.store,
     wrote |-> res.wrote, stale_write |-> stale_write]

NoResult == Result(0, <<>>, EmptyDict, FALSE)
Idle == Flight(NoEvent, <<>>, EmptyDict, "none", FALSE, NoPayload, NoOutcome, 0,
               NoResult, EmptyDict, FALSE)

Init ==
    /\ SESSION_STORE = EmptyDict
    /\ pc = [w \in Handlers |-> "idle"]
    /\ flight = [w \in Handlers |-> Idle]
    /\ stale = [w \in Handlers |-> FALSE]

\* whatsapp_webhook up to the backend call: read the form and the session,
\* pick the branch; the location and free-text branches go on to
\* requests.post, the others build their response at once.  float() of a
\* Latitude or Longitude that is no number raises ValueError outside any try.
Receive(w, ev) ==
    /\ pc[w] = "idle"
    /\ LET session_id   == SessionId(ev.From)
           session_data == DictGet(SESSION_STORE, session_id, EmptyDict)
           first_name   == DictGet(session_data, "first_name", <<>>)
           route        == Route(ev.Body, ev.Latitude, ev.Longitude)
           floats_ok    == float(ev.Latitude.val).ok /\ float(ev.Longitude.val).ok
       IN  IF route = "location" /\ floats_ok
           THEN /\ pc' = [pc EXCEPT ![w] = "posting"]
                /\ flight' = [flight EXCEPT ![w] =
                       Flight(ev, session_id, session_data, route, TRUE,
                              LocationPayload(session_id, first_name,
                                              ev.Latitude, ev.Longitude),
                              NoOutcome, 0, NoResult, EmptyDict, FALSE)]
           ELSE IF route = "text"
           THEN /\ pc' = [pc EXCEPT ![w] = "posting"]
                /\ flight' = [flight EXCEPT ![w] =
                       Flight(ev, session_id, session_data, route, TRUE,
                              TextPayload(session_id, ev.Body, first_name),
                              NoOutcome, 0, NoResult, EmptyDict, FALSE)]
           ELSE IF route = "location"
           THEN /\ pc' = [pc EXCEPT ![w] = "responding"]
                /\ flight' = [flight EXCEPT ![w] =
                       Flight(ev, session_id, session_data, route, FALSE, NoPayload,
                              NoOutcome, 0,
                              Result(500, <<>>, SESSION_STORE, FALSE),
                              SESSION_STORE, FALSE)]
           ELSE IF route = "empty"
           THEN /\ pc' = [pc EXCEPT ![w] = "responding"]
                /\ flight' = [flight EXCEPT ![w] =
                       Flight(ev, session_id, session_data, route, FALSE, NoPayload,
                              NoOutcome, 0,
                              Result(200, <<HELLO_MSG>>, SESSION_STORE, FALSE),
                              SESSION_STORE, FALSE)]
           ELSE \E catalog \in CatalogsRead(ev.Body) :
                /\ pc' = [pc EXCEPT ![w] = "responding"]
                /\ flight' = [flight EXCEPT ![w] =
                       Flight(ev, session_id, session_data, route, FALSE, NoPayload,
                              NoOutcome, catalog,
                              Result(200, <<DetailReply(ev.Body, catalog)>>,
                                     SESSION_STORE, FALSE),
                              SESSION_STORE, FALSE)]
    /\ stale' = [stale EXCEPT ![w] = FALSE]
    /\ UNCHANGED SESSION_STORE

\* whatsapp_webhook from the return of requests.post to the built response.
BackendReturn(w, out) ==
    /\ pc[w] = "posting"
    /\ LET f   == flight[w]
           res == AfterPost(f.session_id, f.session_data, out, SESSION_STORE)
       IN  /\ SESSION_STORE' = res.store
           /\ flight' = [flight EXCEPT ![w] =
                  Flight(f.ev, f.session_id, f.session_data, f.route, TRUE, f.payload,
                         out, 0, res, SESSION_STORE, res.wrote /\ stale[w])]
           /\ stale' = [v \in Handlers |->
                          IF v = w THEN FALSE
                          ELSE IF /\ res.wrote
                                  /\ pc[v] = "posting"
                                  /\ flight[v].session_id = f.session_id
                               THEN TRUE
                               ELSE stale[v]]
    /\ pc' = [pc EXCEPT ![w] = "responding"]

\* return str(resp): the response leaves and the thread is free again.
Respond(w) ==
    /\ pc[w] = "responding"
    /\ pc' = [pc EXCEPT ![w] = "idle"]
    /\ flight' = [flight EXCEPT ![w] = Idle]
    /\ UNCHANGED <<SESSION_STORE, stale>>

Next ==
    \E w \in SoloHandlers :
        \/ \E ev \in Events : Receive(w, ev)
        \/ \E out \in BackendOutcomes : BackendReturn(w, out)
        \/ Respond(w)

Spec == Init /\ [][Next]_vars

\* Two requests in progress at once (Flask serves each request on its own
\* thread), on inputs that reach the backend.
ConcEvents ==
    {Event(f, Some(<<"h","i">>), la, Some(<<"-","7">>)) :
        f \in {Some(<<"whatsapp:+1">>), Some(<<"whatsapp:+2">>)},
        la \in {None, Some(<<" ","1","2",".","5","0">>)}}
    \cup {Event(Some(<<"whatsapp:+1">>), None, None, None)}
ConcOutcomes ==
    {Failure("network_error"),
     Outcome("ok", TRUE, <<"Here is what I found.">>, FALSE, <<>>)}

NextConc ==
    \E w \in Handlers :
        \/ \E ev \in ConcEvents : Receive(w, ev)
        \/ \E out \in ConcOutcomes : BackendReturn(w, out)
        \/ Respond(w)

SpecConc == Init /\ [][NextConc]_vars

\* ------------------------------------------------------------------- claims

\* A form field that is there and not empty, as the claims mean "present".
NonEmpty(x) == x.present /\ x.val # <<>>
HasLocation(ev) == NonEmpty(ev.Latitude) /\ NonEmpty(ev.Longitude)

\* C1: when the backend call of a request fails (network error, non-2xx
\* status, malformed JSON reply), the response is exactly the one fixed
\* connectivity message and SESSION_STORE is as it was before.
C1_BackendFailureReply ==
    \A w \in Handlers :
        (/\ pc[w] = "responding"
         /\ flight[w].sent
         /\ flight[w].outcome.kind \in FailureKinds)
        => /\ flight[w].status = 200
           /\ flight[w].messages = <<CONNECT_MSG>>
           /\ flight[w].store_after = flight[w].store_before

\* C2: after a successful backend reply listing the mentioned products P for
\* an identity, the session stored for that identity has
\* lastMentionedProducts equal to exactly P.
C2_LastMentionedStored ==
    \A w \in Handlers :
        (/\ pc[w] = "responding"
         /\ flight[w].sent
         /\ flight[w].outcome.kind = "ok"
         /\ flight[w].status = 200)
        => DictGet(DictGet(flight[w].store_after, flight[w].session_id, EmptyDict),
                   "lastMentionedProducts", <<>>)
           = flight[w].outcome.mentioned_products

\* C3: no request writes back to SESSION_STORE a session it read before
\* another request wrote the same identity's entry (no lost update).
C3_NoLostUpdate ==
    \A w \in Handlers : pc[w] = "responding" => ~flight[w].stale_write

\* C4: an event with both Latitude and Longitude present is handled as a
\* location share whatever its Body: a backend request it sends carries the
\* location, and it never reads the catalog nor answers with the detail
\* reply, the corrective prompt or the empty-event prompt.
C4_LocationPriority ==
    \A w \in Handlers :
        (pc[w] # "idle" /\ HasLocation(flight[w].ev))
        => /\ flight[w].route = "location"
           /\ flight[w].catalog = 0
           /\ flight[w].sent =>
                 /\ flight[w].payload.has_location
                 /\ flight[w].payload.message = LOCATION_MESSAGE
                 /\ flight[w].payload.location =
                        [latitude  |-> float(flight[w].ev.Latitude.val),
                         longitude |-> float(flight[w].ev.Longitude.val)]
                 /\ flight[w].payload.location.latitude.ok
                 /\ flight[w].payload.location.longitude.ok
           /\ \A i \in 1..Len(flight[w].messages) :
                 /\ flight[w].messages[i] \notin {SPECIFY_MSG, HELLO_MSG, LOAD_ERROR_MSG}
                 /\ \A c \in CatalogIds :
                       flight[w].messages[i] # DetailReply(flight[w].ev.Body, c)

C4_Witness ==
    \E w \in Handlers :
        /\ pc[w] = "responding"
        /\ HasLocation(flight[w].ev)
        /\ flight[w].ev.Body = Some(DETAILS_KEYWORD \o SP \o Tractor)
        /\ flight[w].sent
        /\ flight[w].payload.has_location
        /\ flight[w].status = 200

\* C5: an event with no location and no non-empty Body never reaches the
\* backend, leaves SESSION_STORE unchanged and is answered with exactly the
\* one message "Hello! Please send your query or location.".
C5_EmptyEvent ==
    \A w \in Handlers :
        (/\ pc[w] # "idle"
         /\ ~HasLocation(flight[w].ev)
         /\ ~NonEmpty(flight[w].ev.Body))
        => /\ pc[w] = "responding"
           /\ ~flight[w].sent
           /\ flight[w].status = 200
           /\ flight[w].messages = <<HELLO_MSG>>
           /\ flight[w].store_after = flight[w].store_before
           /\ SESSION_STORE = flight[w].store_before

C5_Witness ==
    \E w \in Handlers :
        /\ pc[w] = "responding"
        /\ flight[w].ev.Body = Some(<<>>)
        /\ flight[w].ev.Latitude = Some(<<>>)
        /\ flight[w].messages = <<HELLO_MSG>>

\* C6: a Body that is the keyword DETAILS alone, in any letter case, with
\* nothing or only whitespace after it, is answered with the corrective
\* prompt, with no catalog lookup and no backend call.
C6_MalformedDetail ==
    \A w \in Handlers :
        (/\ pc[w] # "idle"
         /\ ~HasLocation(flight[w].ev)
         /\ NonEmpty(flight[w].ev.Body)
         /\ upper(strip(flight[w].ev.Body.val)) = DETAILS_KEYWORD)
        => /\ pc[w] = "responding"
           /\ flight[w].messages = <<SPECIFY_MSG>>
           /\ flight[w].catalog = 0
           /\ ~flight[w].sent

\* C7: a successful backend reply with text t and mentioned products
\* p1..pn is answered with exactly n+1 messages: t first, then the product
\* message of each pi in the backend's order.
C7_ProductText(p) ==
    <<"*">> \o p.title \o <<"*", "\n">> \o p.description \o <<"\n">>
    \o <<"Reply with: DETAILS ">> \o p.title \o <<" to see more.">>

C7_ReplySequence ==
    \A w \in Handlers :
        (/\ pc[w] = "responding"
         /\ flight[w].sent
         /\ flight[w].outcome.kind = "ok"
         /\ \A i \in 1..Len(flight[w].outcome.mentioned_products) :
               /\ flight[w].outcome.mentioned_products[i].has_title
               /\ flight[w].outcome.mentioned_products[i].has_description)
        => LET ps == flight[w].outcome.mentioned_products
               t  == IF flight[w].outcome.has_reply THEN flight[w].outcome.reply ELSE <<>>
           IN  /\ flight[w].status = 200
               /\ Len(flight[w].messages) = Len(ps) + 1
               /\ flight[w].messages[1] = t
               /\ \A i \in 1..Len(ps) : flight[w].messages[i + 1] = C7_ProductText(ps[i])

C7_Witness ==
    \E w \in Handlers :
        /\ pc[w] = "responding"
        /\ flight[w].outcome.kind = "ok"
        /\ Len(flight[w].outcome.mentioned_products) = 2
        /\ flight[w].outcome.mentioned_products[1].title = Tractor
        /\ flight[w].outcome.mentioned_products[2].title = Ox
        /\ Len(flight[w].messages) = 3
        /\ flight[w].messages[1] = <<"Here is what I found.">>

\* The detail request of a handler, as the claims C8 and C9 read it: the
\* Body has a part after its first space, the title is that part trimmed, and
\* the catalog file was readable.
IsDetailRequest(w) ==
    /\ pc[w] = "responding"
    /\ flight[w].route = "details"
    /\ Len(split_once(flight[w].ev.Body.val)) = 2
    /\ flight[w].catalog \in CatalogIds
    /\ Catalogs[flight[w].catalog].readable
TitleOf(w) == strip(split_once(flight[w].ev.Body.val)[2])
MatchesOf(w) ==
    LET ps == Catalogs[flight[w].catalog].products
    IN  {i \in 1..Len(ps) : lower(ps[i].title) = lower(TitleOf(w))}
RecordOf(w) ==
    Catalogs[flight[w].catalog].products[
        CHOOSE i \in MatchesOf(w) : \A j \in MatchesOf(w) : i <= j]
DetailText(p, no_url) ==
    <<"*">> \o p.title \o <<"*", "\n">> \o p.description \o <<"\n", "\n">>
    \o parse_detailed_description(
           IF p.has_detailed_description THEN p.detailed_description
           ELSE DictNode(<<>>))
    \o <<"\n">>
    \o <<"View Product: ">> \o (IF p.has_product_url THEN p.product_url ELSE no_url)

\* C8 as stated: a detail request whose title matches a catalog record
\* case-insensitively is answered with the one message
\* "*<title>*\n<description>\n\n<formattedDetail>\nView Product: <url>", the
\* url being "No URL available" when the record has none.
C8_DetailReplyAsStated ==
    \A w \in Handlers :
        (/\ IsDetailRequest(w)
         /\ MatchesOf(w) # {}
         /\ RecordOf(w).has_detailed_description)
        => flight[w].messages = <<DetailText(RecordOf(w), <<"No URL available">>)>>

\* C8 amended: the same, the url being "No URL" when the record has none
\* (and formattedDetail that of an empty mapping when the record has no
\* detailed description).
C8_DetailReply ==
    \A w \in Handlers :
        (/\ IsDetailRequest(w)
         /\ MatchesOf(w) # {})
        => /\ flight[w].status = 200
           /\ flight[w].messages = <<DetailText(RecordOf(w), <<"No URL">>)>>

C8_Witness ==
    \E w \in Handlers :
        /\ IsDetailRequest(w)
        /\ MatchesOf(w) # {}
        /\ RecordOf(w).has_detailed_description
        /\ ~RecordOf(w).has_product_url
        /\ RecordOf(w).title # TitleOf(w)
        /\ flight[w].messages = <<DetailText(RecordOf(w), <<"No URL">>)>>

C10_AlwaysReplies ==
    \A w \in Handlers :
        pc[w] = "responding" => flight[w].status = 200 /\ Len(flight[w].messages) >= 1

====
